---- MODULE Spec2Model ----
(***************************************************************************)
(* Model of the `wkg get` command (crates/wkg/src/main.rs, GetCommand::run) *)
(* and of the filesystem it publishes to.                                   *)
(*                                                                          *)
(* A run is a sequential process whose position is run[p].pc.  The registry *)
(* client, the component decoder and the operating system are the           *)
(* environment: each call into them is one action whose result is drawn     *)
(* from the outcomes the callee can produce (a value, or an error).         *)
(* The filesystem is a directory table fs (path -> inode) over inode        *)
(* contents ino, so that a rename moves an inode and an in-flight write of  *)
(* tokio::fs::File lands in the inode wherever it is linked.                *)
(***************************************************************************)
EXTENDS Integers, Sequences, FiniteSets, TLC

\* ------------------------------------------------------------------ bounds
MaxChunks == 2
MaxReleases == 2
MaxLen == 5
RaceChunks == 1

\* ------------------------------------------------------------- option type
None == <<>>
Some(x) == <<x>>
IsSome(o) == o /= <<>>
Unwrap(o) == o[1]

\* ------------------------------------------------------ invocations, inputs
Procs == {"p1", "p2"}

\* enum Format
Format == {"Auto", "Wasm", "Wit"}

\* The package named on the command line (PackageSpec.package).
Package == [namespace |-> "wasi", name |-> "cli"]

\* semver versions <<major, minor, patch>> the registry and the user may name
Versions == {<<0, 9, 9>>, <<1, 0, 0>>, <<1, 2, 0>>, <<2, 0, 0>>}

\* VersionInfo values returned by list_all_versions
VersionInfos == [version : Versions, yanked : BOOLEAN]

SeqsUpTo(S, n) == UNION {[1..k -> S] : k \in 0..n}

ReleaseLists == SeqsUpTo(VersionInfos, MaxReleases)

\* content bytes; a chunk of the content stream is a non-empty byte string
Bytes == {"W", "M", "x"}
Chunks == {<<b>> : b \in Bytes}

\* ------------------------------------------------------------------- paths
\* A path is a sequence of components, a component a sequence of tokens
\* ("." is a token of its own); the user's --output also records whether
\* its text ends with '/'.
Comp(name) == <<name>>
CompExt(stem, ext) == <<stem, ".", ext>>

OutputPaths ==
  { [comps |-> <<Comp("out"), CompExt("pkg", "wasm")>>, slash |-> FALSE],
    [comps |-> <<Comp("out"), CompExt("pkg", "wit")>>,  slash |-> FALSE],
    [comps |-> <<Comp("out"), CompExt("pkg", "txt")>>,  slash |-> FALSE],
    [comps |-> <<Comp("out")>>,                         slash |-> TRUE],
    [comps |-> <<CompExt("out", "wit")>>,               slash |-> TRUE],
    [comps |-> <<CompExt("pkg", "wasm")>>,              slash |-> FALSE],
    [comps |-> <<>>,                                    slash |-> FALSE] }

\* Display of an integer (format!("{version}"))
NumStr(n) == <<"0", "1", "2", "3", "4", "5", "6", "7", "8", "9">>[n + 1]

\* Display of a semver version: major.minor.patch
VersionTokens(v) == <<NumStr(v[1]), ".", NumStr(v[2]), ".", NumStr(v[3])>>

\* format!("{namespace}_{name}@{version}.{ext}")
FileName(pkg, v, ext) ==
  <<pkg.namespace, "_", pkg.name, "@">> \o VersionTokens(v) \o <<".", ext>>

\* Index of the last "." token of a component, 0 if none
LastDot(c) ==
  LET dots == {i \in 1..Len(c) : c[i] = "."}
  IN  IF dots = {} THEN 0 ELSE CHOOSE i \in dots : \A j \in dots : j <= i

\* Path::extension: the part of the last component after its last '.',
\* None when there is no component, no '.', or nothing before the '.'.
Extension(o) ==
  IF o.comps = <<>> THEN None
  ELSE LET c == o.comps[Len(o.comps)]
           d == LastDot(c)
       IN  IF d <= 1 THEN None ELSE Some(SubSeq(c, d + 1, Len(c)))

\* self.output.as_os_str().to_string_lossy().ends_with('/')
TrailingSlash(o) == o.slash

\* Path::parent: None for the empty path, else the path without its last
\* component.
Parent(o) ==
  IF o.comps = <<>> THEN None
  ELSE Some(SubSeq(o.comps, 1, Len(o.comps) - 1))

\* the parent taken whether or not the output ends with '/'
ParentDir_AlwaysParent(o) == Parent(o)

\* parent_dir of lines 106-112
ParentDir(o) == IF TrailingSlash(o) THEN Some(o.comps) ELSE Parent(o)

\* PathBuf::join
Join(dir, c) == Append(dir, c)

\* NamedTempFile::with_prefix_in(".wkg-get", parent_dir): a fresh name
\* (the random suffix is the invocation's id)
TmpName(p) == <<".wkg-get", p>>
TmpPath(p, dir) == Join(dir, TmpName(p))

\* a synthesized name that always ends in .wasm
OutputPath_AlwaysWasm(o, pkg, v, wit) ==
  IF TrailingSlash(o)
  THEN Join(o.comps, FileName(pkg, v, "wasm"))
  ELSE o.comps

\* lines 163-172
OutputPath(o, pkg, v, wit) ==
  IF TrailingSlash(o)
  THEN Join(o.comps, FileName(pkg, v, IF IsSome(wit) THEN "wit" ELSE "wasm"))
  ELSE o.comps

\* ------------------------------------------------------ version resolution
\* Ord of a semver version: major, then minor, then patch
VersionLess(a, b) ==
  \/ a[1] < b[1]
  \/ a[1] = b[1] /\ a[2] < b[2]
  \/ a[1] = b[1] /\ a[2] = b[2] /\ a[3] < b[3]

\* a filter that keeps the yanked releases instead of dropping them
NonYanked_KeepsYanked(vis) ==
  LET kept == SelectSeq(vis, LAMBDA vi : vi.yanked)
  IN  [i \in 1..Len(kept) |-> kept[i].version]

\* .filter_map(|vi| (!vi.yanked).then_some(vi.version))
NonYanked(vis) ==
  LET kept == SelectSeq(vis, LAMBDA vi : ~vi.yanked)
  IN  [i \in 1..Len(kept) |-> kept[i].version]

\* Iterator::max: a fold that keeps the later of two equal elements
RECURSIVE MaxFold(_, _)
MaxFold(acc, vs) ==
  IF vs = <<>> THEN acc
  ELSE MaxFold(IF VersionLess(vs[1], acc) THEN acc ELSE vs[1], Tail(vs))

MaxVersion(vs) == IF vs = <<>> THEN None ELSE Some(MaxFold(vs[1], Tail(vs)))

\* the maximum taken over all releases, the filter left out
SelectVersion_NoFilter(vis) ==
  MaxVersion([i \in 1..Len(vis) |-> vis[i].version])

\* lines 90-94: the version selected from the list, None if "No releases found"
SelectVersion(vis) == MaxVersion(NonYanked(vis))

\* -------------------------------------------------------------- the decoder
\* wit_component::decode_reader is a function of the bytes read with three
\* outcomes: a WIT package, another decoded artifact, or an error.  The
\* first byte stands for the content's encoding.
Decode(data) ==
  IF data = <<>> THEN "Err"
  ELSE IF data[1] = "W" THEN "WitPackage"
  ELSE IF data[1] = "M" THEN "Other"
  ELSE "Err"

\* WitPrinter::print: the text of a decoded package (never the raw bytes)
WitPrint(data) == <<"package">> \o Tail(data) \o <<";">>

RECURSIVE Concat(_)
Concat(chunks) ==
  IF chunks = <<>> THEN <<>> ELSE chunks[1] \o Concat(Tail(chunks))

\* ------------------------------------------------------- package references
\* the characters of the texts given to the parser
Chars == {"a", "1", "-", ":", "A"}

Strings == SeqsUpTo(Chars, MaxLen)

\* Label validation: non-empty; lowercase letters, digits and hyphens only;
\* no leading, trailing or consecutive hyphen
LabelValid(s) ==
  /\ s /= <<>>
  /\ \A i \in 1..Len(s) : s[i] \in {"a", "1", "-"}
  /\ s[1] /= "-"
  /\ s[Len(s)] /= "-"
  /\ \A i \in 1..(Len(s) - 1) : ~(s[i] = "-" /\ s[i + 1] = "-")

\* str::parse::<Label>: the label keeps the text it was parsed from
LabelParse(s) ==
  IF LabelValid(s) THEN [ok |-> TRUE, label |-> s]
  ELSE [ok |-> FALSE, label |-> <<>>]

\* Display of a Label
LabelDisplay(l) == l

\* str::split_once(':'): the text before and after the first ':'
SplitOnce(value) ==
  LET cs == {i \in 1..Len(value) : value[i] = ":"}
  IN  IF cs = {} THEN None
      ELSE LET i == CHOOSE i \in cs : \A j \in cs : i <= j
           IN  Some(<<SubSeq(value, 1, i - 1), SubSeq(value, i + 1, Len(value))>>)

RefErr == [ok |-> FALSE, err |-> "InvalidPackageRef", namespace |-> <<>>, name |-> <<>>]

\* a parser that does not validate the name side
TryFrom_NameUnchecked(value) ==
  LET parts == SplitOnce(value)
  IN  IF parts = None THEN RefErr
      ELSE IF ~LabelParse(Unwrap(parts)[1]).ok THEN RefErr
      ELSE [ok |-> TRUE, err |-> "", namespace |-> Unwrap(parts)[1],
            name |-> Unwrap(parts)[2]]

\* TryFrom<&str> for PackageRef
TryFrom(value) ==
  LET parts == SplitOnce(value)
  IN  IF parts = None THEN RefErr
      ELSE LET namespace == LabelParse(Unwrap(parts)[1])
               name == LabelParse(Unwrap(parts)[2])
           IN  IF ~namespace.ok THEN RefErr
               ELSE IF ~name.ok THEN RefErr
               ELSE [ok |-> TRUE, err |-> "", namespace |-> namespace.label,
                     name |-> name.label]

\* a Display that writes the name first
Display_Swapped(r) == LabelDisplay(r.name) \o <<":">> \o LabelDisplay(r.namespace)

\* Display for PackageRef: write!(f, "{}:{}", self.namespace, self.name)
Display(r) == LabelDisplay(r.namespace) \o <<":">> \o LabelDisplay(r.name)

\* the parser at rest: the command line's package "wasi:cli" has been parsed
ParsedRef ==
  [pc |-> "done", value |-> <<>>, result |-> None, shown |-> None, again |-> None]

\* ------------------------------------------------------------------- state
\* fs:    directory entries, path -> inode id
\* ino:   inode id -> content (a byte/text sequence)
\* disk0: the path -> content view of the filesystem before the runs
\* run:   per invocation, the arguments and locals of GetCommand::run and
\*        its position
\* pref:  the package reference parser: its input text, the result of
\*        parsing it, the Display form of the result and that form parsed
VARIABLES fs, ino, disk0, run, pref

vars == <<fs, ino, disk0, run, pref>>

OldIno == <<"old">>
OldData == <<"o", "l", "d">>
TmpIno(p) == <<"tmp", p>>
OutIno(p) == <<"out", p>>

\* What a reader sees at each existing path
Disk == [q \in DOMAIN fs |-> ino[fs[q]]]

\* Path::exists
Exists(q) == q \in DOMAIN fs

\* the paths a run with output o can publish to
CandidateFinals(o) ==
  IF TrailingSlash(o)
  THEN {Join(o.comps, FileName(Package, v, e)) : v \in Versions, e \in {"wit", "wasm"}}
  ELSE IF o.comps = <<>> THEN {} ELSE {o.comps}

\* tokio::fs::File: Idle, or Busy with a buffer handed to a blocking task;
\* err is the failure of the last completed background write that no
\* operation has reported yet.
FileIdle == [st |-> "Idle", buf |-> <<>>, err |-> FALSE]

\* the locals of a run that has not started
NewRun(output, format, overwrite, version) ==
  [ pc |-> "config",
    output |-> output, arg_format |-> format, overwrite |-> overwrite,
    arg_version |-> version,
    versions |-> <<>>, version |-> None, release |-> None,
    tmp_path |-> None, file |-> FileIdle, chunk |-> <<>>, yielded |-> <<>>,
    format |-> format, wit |-> None, output_path |-> None,
    listCalls |-> 0, getCalls |-> 0, getArg |-> None, streamCalls |-> 0,
    decodeCalls |-> 0, out_fd |-> None, result |-> "Running",
    stream_len |-> MaxChunks ]

OffRun == [NewRun([comps |-> <<>>, slash |-> FALSE], "Auto", FALSE, None)
             EXCEPT !.pc = "off"]

VersionArgs == {None} \cup {Some(v) : v \in Versions}

\* One invocation of `wkg get` on a filesystem where at most one of the paths
\* it can publish to already holds a file.
Init ==
  \E o \in OutputPaths, f \in Format, ow \in BOOLEAN, v \in VersionArgs :
    \E pre \in {None} \cup {Some(q) : q \in CandidateFinals(o)} :
      /\ fs = [q \in {pre[i] : i \in 1..Len(pre)} |-> OldIno]
      /\ ino = [i \in {OldIno} |-> OldData]
      /\ disk0 = [q \in {pre[i] : i \in 1..Len(pre)} |-> OldData]
      /\ run = [p \in Procs |-> IF p = "p1" THEN NewRun(o, f, ow, v) ELSE OffRun]
      /\ pref = ParsedRef

\* ----------------------------------------------------------------- actions
Local(p) == run[p]

SetRun(p, r) == run' = [run EXCEPT ![p] = r] /\ UNCHANGED pref

\* a temporary path that is never unlinked
DropTmp_Keeps(p) == fs

\* Drop of tmp_path (TempPath): the temporary file is unlinked if it is
\* still there under its temporary name.
DropTmp(p) ==
  IF IsSome(Local(p).tmp_path) /\ Unwrap(Local(p).tmp_path) \in DOMAIN fs
  THEN [q \in DOMAIN fs \ {Unwrap(Local(p).tmp_path)} |-> fs[q]]
  ELSE fs

\* `?` / return Err(..): the locals are dropped and run returns the error
Fail(p, err) ==
  /\ SetRun(p, [Local(p) EXCEPT !.pc = "done", !.result = err])
  /\ fs' = DropTmp(p)
  /\ UNCHANGED <<ino, disk0>>

\* lines 70-82: the client configuration is read
Config(p) ==
  /\ Local(p).pc = "config"
  /\ \/ /\ SetRun(p, [Local(p) EXCEPT !.pc = "version"])
        /\ UNCHANGED <<fs, ino, disk0>>
     \/ Fail(p, "ConfigError")

\* the version list fetched whether or not a version was given
NeedsList_Always(arg_version) == TRUE

\* line 84: match version { Some(ver) => .., None => list the versions }
NeedsList(arg_version) == arg_version = None

\* lines 84-85: Some(ver) => ver
ExplicitVersion(p) ==
  /\ Local(p).pc = "version"
  /\ ~NeedsList(Local(p).arg_version)
  /\ SetRun(p, [Local(p) EXCEPT !.pc = "get_release",
                                !.version = Local(p).arg_version])
  /\ UNCHANGED <<fs, ino, disk0>>

\* a version listing that is tried again after a failure
ListAllVersions_Retry(p) ==
  /\ Local(p).pc = "version"
  /\ NeedsList(Local(p).arg_version)
  /\ \/ \E vis \in ReleaseLists :
          /\ SetRun(p, [Local(p) EXCEPT !.pc = "select", !.versions = vis,
                                        !.listCalls = @ + 1])
          /\ UNCHANGED <<fs, ino, disk0>>
     \/ /\ SetRun(p, [Local(p) EXCEPT !.listCalls = @ + 1])
        /\ UNCHANGED <<fs, ino, disk0>>

\* line 88: client.list_all_versions(&package).await?
ListAllVersions(p) ==
  /\ Local(p).pc = "version"
  /\ NeedsList(Local(p).arg_version)
  /\ \/ \E vis \in ReleaseLists :
          /\ SetRun(p, [Local(p) EXCEPT !.pc = "select", !.versions = vis,
                                        !.listCalls = @ + 1])
          /\ UNCHANGED <<fs, ino, disk0>>
     \/ /\ SetRun(p, [Local(p) EXCEPT !.pc = "done", !.result = "RegistryError",
                                      !.listCalls = @ + 1])
        /\ UNCHANGED <<fs, ino, disk0>>

\* lines 90-94: filter, max, context("No releases found")?
SelectLatest(p) ==
  /\ Local(p).pc = "select"
  /\ LET sel == SelectVersion(Local(p).versions)
     IN  IF IsSome(sel)
         THEN /\ SetRun(p, [Local(p) EXCEPT !.pc = "get_release",
                                            !.version = sel])
              /\ UNCHANGED <<fs, ino, disk0>>
         ELSE Fail(p, "NoReleasesFound")

\* lines 99-102: client.get_release(&package, &version); the version list
\* is gone by now
GetRelease(p) ==
  /\ Local(p).pc = "get_release"
  /\ \/ /\ SetRun(p, [Local(p) EXCEPT !.pc = "tmpfile",
                                      !.versions = <<>>,
                                      !.getCalls = @ + 1,
                                      !.getArg = Local(p).version,
                                      !.release = Local(p).version])
        /\ UNCHANGED <<fs, ino, disk0>>
     \/ /\ SetRun(p, [Local(p) EXCEPT !.pc = "done", !.result = "RegistryError",
                                      !.versions = <<>>,
                                      !.getCalls = @ + 1,
                                      !.getArg = Local(p).version])
        /\ UNCHANGED <<fs, ino, disk0>>

\* lines 105-116: parent_dir, then the temporary file is created in it
CreateTemp(p) ==
  /\ Local(p).pc = "tmpfile"
  /\ LET dir == ParentDir(Local(p).output)
     IN  IF dir = None
         THEN Fail(p, "NoParentDir")
         ELSE \/ LET t == TmpPath(p, Unwrap(dir))
                 IN  /\ fs' = [q \in DOMAIN fs \cup {t} |->
                                 IF q = t THEN TmpIno(p) ELSE fs[q]]
                     /\ ino' = [i \in DOMAIN ino \cup {TmpIno(p)} |->
                                 IF i = TmpIno(p) THEN <<>> ELSE ino[i]]
                     /\ SetRun(p, [Local(p) EXCEPT !.pc = "stream_content",
                                                   !.tmp_path = Some(t)])
                     /\ UNCHANGED disk0
              \/ Fail(p, "IoError")

\* line 118: client.stream_content(&package, &release).await?
StreamContent(p) ==
  /\ Local(p).pc = "stream_content"
  /\ \/ /\ SetRun(p, [Local(p) EXCEPT !.pc = "try_next", !.streamCalls = @ + 1])
        /\ UNCHANGED <<fs, ino, disk0>>
     \/ /\ SetRun(p, [Local(p) EXCEPT !.pc = "done", !.result = "RegistryError",
                                      !.streamCalls = @ + 1])
        /\ fs' = DropTmp(p)
        /\ UNCHANGED <<ino, disk0>>

\* line 121: content_stream.try_next().await?  The stream yields at most
\* stream_len chunks.
TryNext(p) ==
  /\ Local(p).pc = "try_next"
  /\ \/ \E c \in Chunks :
          /\ Len(Local(p).yielded) < Local(p).stream_len
          /\ SetRun(p, [Local(p) EXCEPT !.pc = "write_all", !.chunk = c,
                                        !.yielded = Append(@, c)])
          /\ UNCHANGED <<fs, ino, disk0>>
     \/ /\ SetRun(p, [Local(p) EXCEPT !.pc = "format"])
        /\ UNCHANGED <<fs, ino, disk0>>
     \/ Fail(p, "StreamError")

\* line 122: file.write_all(&chunk).await? on a tokio::fs::File.  The call
\* waits for the write in flight, reports its failure if it failed, and
\* otherwise hands the chunk to a background write and returns.
WriteAll(p) ==
  /\ Local(p).pc = "write_all"
  /\ Local(p).file.st = "Idle"
  /\ IF Local(p).file.err
     THEN Fail(p, "IoError")
     ELSE /\ SetRun(p, [Local(p) EXCEPT !.pc = "try_next", !.chunk = <<>>,
                          !.file = [st |-> "Busy", buf |-> Local(p).chunk,
                                    err |-> FALSE]])
          /\ UNCHANGED <<fs, ino, disk0>>

\* The background write of the buffered chunk: it lands in the temporary
\* file's inode, or fails; the failure is kept for the next operation.
BgWrite(p) ==
  /\ Local(p).pc \notin {"off", "crashed"}
  /\ Local(p).file.st = "Busy"
  /\ \/ /\ ino' = [ino EXCEPT ![TmpIno(p)] = @ \o Local(p).file.buf]
        /\ SetRun(p, [Local(p) EXCEPT !.file = FileIdle])
        /\ UNCHANGED <<fs, disk0>>
     \/ /\ SetRun(p, [Local(p) EXCEPT !.file = [FileIdle EXCEPT !.err = TRUE]])
        /\ UNCHANGED <<fs, ino, disk0>>

\* the extension consulted even when a format was requested
InferFormat_ExtensionFirst(format, output) ==
  IF IsSome(Extension(output))
  THEN LET ext == Unwrap(Extension(output))
       IN  IF ext = <<"wasm">> THEN "Wasm"
           ELSE IF ext = <<"wit">> THEN "Wit"
           ELSE format
  ELSE format

\* lines 125-139: the format inferred from the extension of self.output
InferFormat(format, output) ==
  IF format = "Auto" /\ IsSome(Extension(output))
  THEN LET ext == Unwrap(Extension(output))
       IN  IF ext = <<"wasm">> THEN "Wasm"
           ELSE IF ext = <<"wit">> THEN "Wit"
           ELSE "Auto"
  ELSE format

\* the decoder run for every format
SkipsDecoder_Never(format) == FALSE

\* line 141: if format == Format::Wasm { None } else { decode }
SkipsDecoder(format) == format = "Wasm"

\* every decode failure returned as an error
DecodeFatal_Always(format) == TRUE

\* line 154: if format == Format::Wit { return Err(err) }
DecodeFatal(format) == format = "Wit"

\* lines 125-143: format decision; Wasm skips the decoder
DecideFormat(p) ==
  /\ Local(p).pc = "format"
  /\ LET f == InferFormat(Local(p).arg_format, Local(p).output)
     IN  SetRun(p, [Local(p) EXCEPT !.format = f,
                      !.pc = IF SkipsDecoder(f) THEN "output_path" ELSE "into_std"])
  /\ UNCHANGED <<fs, ino, disk0>>

\* lines 144-145: file.into_std().await waits for the write in flight and
\* discards its result; then file.rewind()?
IntoStd(p) ==
  /\ Local(p).pc = "into_std"
  /\ Local(p).file.st = "Idle"
  /\ \/ /\ SetRun(p, [Local(p) EXCEPT !.pc = "decode", !.file = FileIdle])
        /\ UNCHANGED <<fs, ino, disk0>>
     \/ Fail(p, "IoError")

\* lines 146-160: decode_reader on the temporary file and its three outcomes
DecodeWit(p) ==
  /\ Local(p).pc = "decode"
  /\ LET data == ino[TmpIno(p)]
         r == [Local(p) EXCEPT !.decodeCalls = @ + 1]
     IN  \/ /\ Decode(data) = "WitPackage"
            /\ \/ /\ SetRun(p, [r EXCEPT !.pc = "output_path",
                                         !.wit = Some(WitPrint(data))])
                  /\ UNCHANGED <<fs, ino, disk0>>
               \/ /\ SetRun(p, [r EXCEPT !.pc = "done", !.result = "PrintError"])
                  /\ fs' = DropTmp(p)
                  /\ UNCHANGED <<ino, disk0>>
         \/ /\ Decode(data) = "Other"
            /\ SetRun(p, [r EXCEPT !.pc = "output_path", !.wit = None])
            /\ UNCHANGED <<fs, ino, disk0>>
         \/ /\ Decode(data) = "Err"
            /\ IF DecodeFatal(Local(p).format)
               THEN /\ SetRun(p, [r EXCEPT !.pc = "done", !.result = "DecodeError"])
                    /\ fs' = DropTmp(p)
                    /\ UNCHANGED <<ino, disk0>>
               ELSE /\ SetRun(p, [r EXCEPT !.pc = "output_path", !.wit = None])
                    /\ UNCHANGED <<fs, ino, disk0>>

\* the check made without looking at --overwrite
CheckPasses_IgnoresFlag(overwrite, q) == ~Exists(q)

\* line 174: self.overwrite || !output_path.exists()
CheckPasses(overwrite, q) == overwrite \/ ~Exists(q)

\* lines 163-176: the final path and the existence check
Ensure(p) ==
  /\ Local(p).pc = "output_path"
  /\ LET q == OutputPath(Local(p).output, Package, Unwrap(Local(p).version),
                         Local(p).wit)
     IN  IF CheckPasses(Local(p).overwrite, q)
         THEN /\ SetRun(p, [Local(p) EXCEPT !.pc = "publish",
                                            !.output_path = Some(q)])
              /\ UNCHANGED <<fs, ino, disk0>>
         ELSE /\ SetRun(p, [Local(p) EXCEPT !.pc = "done",
                              !.result = "OutputExists", !.output_path = Some(q)])
              /\ fs' = DropTmp(p)
              /\ UNCHANGED <<ino, disk0>>

\* a return that leaves the temporary file behind
Return_NoDrop(p, r) ==
  /\ SetRun(p, [r EXCEPT !.pc = "done", !.result = "Ok"])
  /\ fs' = fs

\* run returns Ok(()): the remaining locals are dropped
Return(p, r) ==
  /\ SetRun(p, [r EXCEPT !.pc = "done", !.result = "Ok"])
  /\ fs' = DropTmp(p)

\* line 179, first half: std::fs::write opens the final path with
\* create + truncate
WriteOpen(p) ==
  /\ Local(p).pc = "publish"
  /\ IsSome(Local(p).wit)
  /\ LET q == Unwrap(Local(p).output_path)
     IN  \/ /\ Exists(q)
            /\ ino' = [ino EXCEPT ![fs[q]] = <<>>]
            /\ SetRun(p, [Local(p) EXCEPT !.pc = "fs_write",
                                          !.out_fd = Some(fs[q])])
            /\ UNCHANGED <<fs, disk0>>
         \/ /\ ~Exists(q)
            /\ fs' = [x \in DOMAIN fs \cup {q} |->
                        IF x = q THEN OutIno(p) ELSE fs[x]]
            /\ ino' = [i \in DOMAIN ino \cup {OutIno(p)} |->
                        IF i = OutIno(p) THEN <<>> ELSE ino[i]]
            /\ SetRun(p, [Local(p) EXCEPT !.pc = "fs_write",
                                          !.out_fd = Some(OutIno(p))])
            /\ UNCHANGED disk0
         \/ Fail(p, "WriteError")

\* write(2) at offset 0 of a file: the bytes replace the start of the file
WriteAt0(old, bytes) == bytes \o SubSeq(old, Len(bytes) + 1, Len(old))

\* line 179, second half: the text is written through the open file; a
\* failure leaves the bytes written so far
WriteData(p) ==
  /\ Local(p).pc = "fs_write"
  /\ LET text == Unwrap(Local(p).wit)
         fd == Unwrap(Local(p).out_fd)
     IN  \/ /\ ino' = [ino EXCEPT ![fd] = WriteAt0(@, text)]
            /\ Return(p, Local(p))
            /\ UNCHANGED disk0
         \/ \E k \in 0..(Len(text) - 1) :
              /\ ino' = [ino EXCEPT ![fd] = WriteAt0(@, SubSeq(text, 1, k))]
              /\ SetRun(p, [Local(p) EXCEPT !.pc = "done", !.result = "WriteError"])
              /\ fs' = DropTmp(p)
              /\ UNCHANGED disk0

\* a persist that refuses to replace an existing file (persist_noclobber)
Persist_NoClobber(p) ==
  /\ Local(p).pc = "publish"
  /\ Local(p).wit = None
  /\ LET q == Unwrap(Local(p).output_path)
         t == Unwrap(Local(p).tmp_path)
     IN  \/ /\ t \in DOMAIN fs
            /\ ~Exists(q)
            /\ fs' = [x \in (DOMAIN fs \ {t}) \cup {q} |->
                        IF x = q THEN fs[t] ELSE fs[x]]
            /\ SetRun(p, [Local(p) EXCEPT !.pc = "done", !.result = "Ok"])
            /\ UNCHANGED <<ino, disk0>>
         \/ /\ Exists(q)
            /\ Fail(p, "OutputExists")
         \/ Fail(p, "PersistError")

\* lines 182-184: tmp_path.persist(&output_path) renames the temporary file
Persist(p) ==
  /\ Local(p).pc = "publish"
  /\ Local(p).wit = None
  /\ LET q == Unwrap(Local(p).output_path)
         t == Unwrap(Local(p).tmp_path)
     IN  \/ /\ t \in DOMAIN fs
            /\ fs' = [x \in (DOMAIN fs \ {t}) \cup {q} |->
                        IF x = q THEN fs[t] ELSE fs[x]]
            /\ SetRun(p, [Local(p) EXCEPT !.pc = "done", !.result = "Ok"])
            /\ UNCHANGED <<ino, disk0>>
         \/ Fail(p, "PersistError")

\* The process is terminated from outside: nothing is dropped or finished
Interrupt(p) ==
  /\ Local(p).pc \notin {"off", "done", "crashed"}
  /\ SetRun(p, [Local(p) EXCEPT !.pc = "crashed", !.result = "Interrupted"])
  /\ UNCHANGED <<fs, ino, disk0>>

Next ==
  \E p \in Procs :
    \/ Config(p)
    \/ ExplicitVersion(p)
    \/ ListAllVersions(p)
    \/ SelectLatest(p)
    \/ GetRelease(p)
    \/ CreateTemp(p)
    \/ StreamContent(p)
    \/ TryNext(p)
    \/ WriteAll(p)
    \/ BgWrite(p)
    \/ DecideFormat(p)
    \/ IntoStd(p)
    \/ DecodeWit(p)
    \/ Ensure(p)
    \/ WriteOpen(p)
    \/ WriteData(p)
    \/ Persist(p)
    \/ Interrupt(p)

Spec == Init /\ [][Next]_vars

\* -------------------------------------------------- concurrent invocations
\* the output paths given to two invocations started together
RaceOutputs ==
  { [comps |-> <<Comp("out"), CompExt("pkg", "wasm")>>, slash |-> FALSE],
    [comps |-> <<Comp("out"), CompExt("pkg", "txt")>>,  slash |-> FALSE],
    [comps |-> <<Comp("out")>>,                         slash |-> TRUE] }

\* Two invocations of `wkg get wasi:cli --output <o>`, without --overwrite,
\* started on a filesystem where nothing exists at <o>; the first names
\* version 1.0.0, the second names it or leaves the version out.
InitRace ==
  \E o \in RaceOutputs :
    /\ fs = <<>>
    /\ ino = <<>>
    /\ disk0 = <<>>
    /\ \E v \in {None, Some(<<1, 0, 0>>)} :
         run = [p \in Procs |->
                  [NewRun(o, "Auto", FALSE, IF p = "p1" THEN Some(<<1, 0, 0>>) ELSE v)
                     EXCEPT !.stream_len = RaceChunks]]
    /\ pref = ParsedRef

SpecRace == InitRace /\ [][Next]_vars

\* ------------------------------------------- the package reference parser
\* a text is given to the parser; no run of the command is in progress
InitRef ==
  /\ fs = <<>>
  /\ ino = <<>>
  /\ disk0 = <<>>
  /\ run = [p \in Procs |-> OffRun]
  /\ \E s \in Strings :
       pref = [pc |-> "parse", value |-> s, result |-> None, shown |-> None,
               again |-> None]

\* PackageRef::try_from(value)
Parse ==
  /\ pref.pc = "parse"
  /\ LET r == TryFrom(pref.value)
     IN  pref' = [pref EXCEPT !.result = Some(r),
                              !.pc = IF r.ok THEN "display" ELSE "done"]
  /\ UNCHANGED <<fs, ino, disk0, run>>

\* package.to_string()
Show ==
  /\ pref.pc = "display"
  /\ pref' = [pref EXCEPT !.shown = Some(Display(Unwrap(pref.result))),
                           !.pc = "reparse"]
  /\ UNCHANGED <<fs, ino, disk0, run>>

\* FromStr for PackageRef: s.try_into() on the displayed text
Reparse ==
  /\ pref.pc = "reparse"
  /\ pref' = [pref EXCEPT !.again = Some(TryFrom(Unwrap(pref.shown))),
                           !.pc = "done"]
  /\ UNCHANGED <<fs, ino, disk0, run>>

NextRef == Parse \/ Show \/ Reparse

SpecRef == InitRef /\ [][NextRef]_vars

\* ================================================================== claims
Started(p) == run[p].pc /= "off"

\* the run has returned and its background write, if any, has finished
Exited(p) == run[p].pc = "done" /\ run[p].file.st = "Idle"

Succeeded(p) == Exited(p) /\ run[p].result = "Ok"

IsTmp(q) == q /= <<>> /\ q[Len(q)][1] = ".wkg-get"

FinalOf(p) == Unwrap(run[p].output_path)

\* the whole content the stream yielded
Fetched(p) == Concat(run[p].yielded)

\* the complete artifacts a run can publish: the content, or its WIT text
CompleteArtifacts(p) ==
  {Fetched(p)} \cup
  (IF Decode(Fetched(p)) = "WitPackage" THEN {WitPrint(Fetched(p))} ELSE {})

IsPrefix(a, b) == Len(a) <= Len(b) /\ a = SubSeq(b, 1, Len(a))

\* C1: at every point of a run, interruptions and I/O failures included,
\* every path other than the temporary file holds what it held before the
\* run or a complete new artifact, never a partially written one.
C1_FinalPathAtomic ==
  \A q \in DOMAIN fs :
    ~IsTmp(q) =>
      \/ q \in DOMAIN disk0 /\ Disk[q] = disk0[q]
      \/ \E p \in Procs : Started(p) /\ Disk[q] \in CompleteArtifacts(p)

\* C2: the existence check fails the run with OutputExists, leaving the file
\* as it was, exactly when the final path exists and --overwrite is not set;
\* otherwise the check passes, and a run that then succeeds has put the new
\* artifact at the final path.
C2_CheckStep(p) ==
  (run[p].pc = "output_path" /\ run'[p].pc \notin {"output_path", "crashed"}) =>
    LET q == Unwrap(run'[p].output_path)
    IN  IF q \in DOMAIN fs /\ ~run[p].overwrite
        THEN /\ run'[p].pc = "done"
             /\ run'[p].result = "OutputExists"
             /\ q \in DOMAIN fs'
             /\ ino'[fs'[q]] = ino[fs[q]]
        ELSE run'[p].pc = "publish"

C2_Outcome(p) ==
  /\ (run[p].pc = "done" /\ run[p].result = "OutputExists") =>
       /\ FinalOf(p) \in DOMAIN disk0
       /\ FinalOf(p) \in DOMAIN fs
       /\ Disk[FinalOf(p)] = disk0[FinalOf(p)]
  /\ Succeeded(p) =>
       /\ FinalOf(p) \in DOMAIN fs
       /\ IF IsSome(run[p].wit)
          THEN Disk[FinalOf(p)] = Unwrap(run[p].wit)
          ELSE fs[FinalOf(p)] = TmpIno(p)

C2_OverwriteCheck ==
  /\ [][\A p \in Procs : C2_CheckStep(p)]_vars
  /\ [](\A p \in Procs : C2_Outcome(p))

\* C2 witness: a run with --overwrite succeeded over an existing file and
\* changed its content
C2_Witness ==
  \E p \in Procs :
    /\ Succeeded(p)
    /\ run[p].overwrite
    /\ FinalOf(p) \in DOMAIN disk0
    /\ Disk[FinalOf(p)] /= disk0[FinalOf(p)]

\* C3: a run that ends with a stream error leaves the filesystem as it was
\* before the run: nothing at the final path is created or changed and the
\* temporary file is gone.
C3_StreamErrorLeavesNothing ==
  \A p \in Procs :
    (run[p].pc = "done" /\ run[p].result = "StreamError") =>
      /\ DOMAIN fs = DOMAIN disk0
      /\ Disk = disk0
      /\ Unwrap(run[p].tmp_path) \notin DOMAIN fs

\* C3 witness: the stream failed after a chunk had reached the temporary file
C3_Witness ==
  \E p \in Procs :
    /\ run[p].pc = "done"
    /\ run[p].result = "StreamError"
    /\ Len(run[p].yielded) >= 1
    /\ ino[TmpIno(p)] /= <<>>
    /\ DOMAIN disk0 /= {}

\* C4: a run that reported success with raw-binary output has, once the
\* process has exited, exactly the concatenation of the yielded chunks at
\* the final path.
C4_RawIsWholeStream ==
  \A p \in Procs :
    (Succeeded(p) /\ run[p].wit = None) =>
      /\ FinalOf(p) \in DOMAIN fs
      /\ Disk[FinalOf(p)] = Fetched(p)

\* semantic-version precedence stated on its own: the weight of a version
SemverWeight(v) == v[1] * 10000 + v[2] * 100 + v[3]

\* the versions of the releases of a list that are not yanked
Unyanked(vis) == {vis[i].version : i \in {j \in DOMAIN vis : ~vis[j].yanked}}

\* the version list has been fetched and a version chosen from it
Resolved(p) == run[p].pc = "get_release" /\ run[p].listCalls = 1

\* C5: without an explicit version, the version chosen, and then passed to
\* get_release, is a non-yanked release of the list and no non-yanked
\* release of the list has a higher semantic version.
C5_LatestNonYanked ==
  \A p \in Procs :
    /\ Resolved(p) =>
         /\ Unwrap(run[p].version) \in Unyanked(run[p].versions)
         /\ \A v \in Unyanked(run[p].versions) :
              SemverWeight(v) <= SemverWeight(Unwrap(run[p].version))
    /\ (run[p].arg_version = None /\ run[p].getCalls > 0) =>
         run[p].getArg = run[p].version

\* C5 witness: the highest version of the list is yanked and a lower one
\* was chosen
C5_Witness ==
  \E p \in Procs :
    /\ Resolved(p)
    /\ \E i \in DOMAIN run[p].versions :
         /\ run[p].versions[i].yanked
         /\ SemverWeight(run[p].versions[i].version)
              > SemverWeight(Unwrap(run[p].version))

\* C6: when the fetched list has no non-yanked release, the next step of the
\* run is the failure "No releases found": get_release has not been called,
\* no temporary file exists and the filesystem is as before the run.
C6_Step(p) ==
  (/\ run[p].pc = "select"
   /\ \A i \in DOMAIN run[p].versions : run[p].versions[i].yanked
   /\ run'[p].pc \notin {"select", "crashed"}) =>
     /\ run'[p].pc = "done"
     /\ run'[p].result = "NoReleasesFound"

C6_Outcome(p) ==
  (run[p].pc = "done" /\ run[p].result = "NoReleasesFound") =>
    /\ run[p].getCalls = 0
    /\ run[p].streamCalls = 0
    /\ run[p].tmp_path = None
    /\ TmpIno(p) \notin DOMAIN ino
    /\ DOMAIN fs = DOMAIN disk0
    /\ Disk = disk0
    /\ Unyanked(run[p].versions) = {}

C6_NoReleases ==
  /\ [][\A p \in Procs : C6_Step(p)]_vars
  /\ [](\A p \in Procs : C6_Outcome(p))

\* C6 witness: a non-empty list whose releases are all yanked made the run
\* fail, a file being present at the output path
C6_Witness ==
  \E p \in Procs :
    /\ run[p].pc = "done"
    /\ run[p].result = "NoReleasesFound"
    /\ run[p].versions /= <<>>
    /\ DOMAIN disk0 /= {}

\* C7: with an explicit version list_all_versions is never called, and the
\* version passed to get_release and written into a synthesized file name
\* is the explicit version.
C7_ExplicitVersion ==
  \A p \in Procs :
    IsSome(run[p].arg_version) =>
      /\ run[p].listCalls = 0
      /\ run[p].getCalls > 0 => run[p].getArg = run[p].arg_version
      /\ (IsSome(run[p].output_path) /\ run[p].output.slash) =>
           \E e \in {"wit", "wasm"} :
             FinalOf(p) = Append(run[p].output.comps,
                 <<"wasi", "_", "cli", "@">> \o
                 VersionTokens(Unwrap(run[p].arg_version)) \o <<".", e>>)

\* C7 witness: a directory-mode run with an explicit version succeeded
C7_Witness ==
  \E p \in Procs :
    /\ Succeeded(p)
    /\ IsSome(run[p].arg_version)
    /\ run[p].output.slash
    /\ run[p].getCalls = 1

\* C8: with --format wasm the decoder is never invoked and a successful run
\* has the temporary file holding the fetched raw bytes at the final path,
\* never decoded text.
C8_ForcedWasm ==
  \A p \in Procs :
    run[p].arg_format = "Wasm" =>
      /\ run[p].decodeCalls = 0
      /\ run[p].wit = None
      /\ Succeeded(p) =>
           /\ FinalOf(p) \in DOMAIN fs
           /\ fs[FinalOf(p)] = TmpIno(p)
           /\ IsPrefix(Disk[FinalOf(p)], Fetched(p))

\* C8 witness: --format wasm, an output path ending in .wit and content
\* that decodes to a WIT package
C8_Witness ==
  \E p \in Procs :
    /\ Succeeded(p)
    /\ run[p].arg_format = "Wasm"
    /\ Extension(run[p].output) = Some(<<"wit">>)
    /\ Decode(Disk[FinalOf(p)]) = "WitPackage"

\* C9: with --format wit every successful run has decoded text at the final
\* path, never the raw binary.
C9_ForcedWitPublishesText ==
  \A p \in Procs :
    (Succeeded(p) /\ run[p].arg_format = "Wit") =>
      /\ IsSome(run[p].wit)
      /\ FinalOf(p) \in DOMAIN fs
      /\ fs[FinalOf(p)] /= TmpIno(p)
      /\ Disk[FinalOf(p)] = Unwrap(run[p].wit)

\* C10: a decode failure ends the run, with the decode error and the
\* filesystem as before the run, exactly when the format is Wit at decode
\* time; with Auto the run goes on without text and, if it succeeds,
\* publishes the raw binary.
C10_Step(p) ==
  (/\ run[p].pc = "decode"
   /\ Decode(ino[TmpIno(p)]) = "Err"
   /\ run'[p].pc \notin {"decode", "crashed"}) =>
     IF run[p].format = "Wit"
     THEN /\ run'[p].pc = "done"
          /\ run'[p].result = "DecodeError"
     ELSE /\ run[p].format = "Auto"
          /\ run'[p].pc = "output_path"
          /\ run'[p].wit = None

C10_Outcome(p) ==
  /\ (run[p].pc = "done" /\ run[p].result = "DecodeError") =>
       /\ run[p].format = "Wit"
       /\ Decode(ino[TmpIno(p)]) = "Err"
       /\ DOMAIN fs = DOMAIN disk0
       /\ Disk = disk0
  /\ (Succeeded(p) /\ run[p].decodeCalls = 1 /\ Decode(ino[TmpIno(p)]) = "Err") =>
       /\ run[p].format = "Auto"
       /\ fs[FinalOf(p)] = TmpIno(p)

C10_DecodeFailure ==
  /\ [][\A p \in Procs : C10_Step(p)]_vars
  /\ [](\A p \in Procs : C10_Outcome(p))

\* C10 witness: content that does not decode was published raw under Auto
C10_Witness ==
  \E p \in Procs :
    /\ Succeeded(p)
    /\ run[p].format = "Auto"
    /\ run[p].decodeCalls = 1
    /\ Decode(ino[TmpIno(p)]) = "Err"
    /\ Disk[FinalOf(p)] /= <<>>


\* the output path's last component is <stem>.<e>
HasExt(o, e) ==
  /\ o.comps /= <<>>
  /\ LET c == o.comps[Len(o.comps)]
     IN  Len(c) >= 3 /\ c[Len(c) - 1] = "." /\ c[Len(c)] = e

\* the effective format as the claim states it
EffectiveFormat(p) ==
  IF run[p].arg_format \in {"Wasm", "Wit"} THEN run[p].arg_format
  ELSE IF HasExt(run[p].output, "wasm") THEN "Wasm"
  ELSE IF HasExt(run[p].output, "wit") THEN "Wit"
  ELSE "Auto"

\* C11: the format decision never fails the run and yields the requested
\* format when it is Wasm or Wit, else Wasm or Wit by the extension "wasm"
\* or "wit" of the output path, else Auto; the decoder is then skipped for
\* Wasm and tried on the temporary file otherwise.
C11_Step(p) ==
  (run[p].pc = "format" /\ run'[p].pc \notin {"format", "crashed"}) =>
    /\ run'[p].format = EffectiveFormat(p)
    /\ run'[p].result = "Running"
    /\ run'[p].pc = IF EffectiveFormat(p) = "Wasm" THEN "output_path"
                    ELSE "into_std"

C11_Decided(p) ==
  run[p].pc \in {"into_std", "decode", "output_path", "publish", "fs_write"} =>
    run[p].format = EffectiveFormat(p)

C11_EffectiveFormat ==
  /\ [][\A p \in Procs : C11_Step(p)]_vars
  /\ [](\A p \in Procs : C11_Decided(p))

\* C11 witness: Auto with the unrecognized extension .txt reached the decoder
C11_Witness ==
  \E p \in Procs :
    /\ run[p].pc = "decode"
    /\ run[p].arg_format = "Auto"
    /\ HasExt(run[p].output, "txt")
    /\ run[p].format = "Auto"


\* the text of each version, written out
VersionText(v) ==
  CASE v = <<0, 9, 9>> -> <<"0", ".", "9", ".", "9">>
    [] v = <<1, 0, 0>> -> <<"1", ".", "0", ".", "0">>
    [] v = <<1, 2, 0>> -> <<"1", ".", "2", ".", "0">>
    [] v = <<2, 0, 0>> -> <<"2", ".", "0", ".", "0">>

\* wasi_cli@<version>.<ext>
SynthesizedName(v, ext) ==
  <<"wasi", "_", "cli", "@">> \o VersionText(v) \o <<".", ext>>

\* C12: in directory mode the final path is the output directory joined with
\* wasi_cli@<resolved version>.<ext>, ext being wit exactly when decoded text
\* was produced, and a successful run then has text at the final path
\* exactly when ext is wit; otherwise the final path is the output path.
C12_FinalPath ==
  \A p \in Procs :
    IsSome(run[p].output_path) =>
      IF run[p].output.slash
      THEN /\ FinalOf(p) =
                Append(run[p].output.comps,
                       SynthesizedName(Unwrap(run[p].getArg),
                                       IF IsSome(run[p].wit) THEN "wit" ELSE "wasm"))
           /\ Succeeded(p) =>
                IF IsSome(run[p].wit)
                THEN Disk[FinalOf(p)] = Unwrap(run[p].wit)
                ELSE fs[FinalOf(p)] = TmpIno(p)
      ELSE FinalOf(p) = run[p].output.comps

\* C12 witness: a directory-mode run resolved its version from the list and
\* published text under a .wit name
C12_Witness ==
  \E p \in Procs :
    /\ Succeeded(p)
    /\ run[p].output.slash
    /\ run[p].listCalls = 1
    /\ IsSome(run[p].wit)
    /\ FinalOf(p) = <<<<"out">>, SynthesizedName(<<1, 2, 0>>, "wit")>>
    /\ Disk[FinalOf(p)] = Unwrap(run[p].wit)


\* the number of ':' in a text
Colons(s) == Cardinality({i \in 1..Len(s) : s[i] = ":"})

\* the text of a reference before and after its only ':'
SideBefore(s) == SubSeq(s, 1, (CHOOSE i \in 1..Len(s) : s[i] = ":") - 1)
SideAfter(s) == SubSeq(s, (CHOOSE i \in 1..Len(s) : s[i] = ":") + 1, Len(s))

\* C13: for every text that parses to a package reference, the Display form
\* of the reference is namespace, ':', name, and parsing that form succeeds
\* and gives an equal reference.
C13_RoundTrip ==
  (pref.pc = "done" /\ IsSome(pref.result) /\ Unwrap(pref.result).ok) =>
    /\ Unwrap(pref.shown) =
         Unwrap(pref.result).namespace \o <<":">> \o Unwrap(pref.result).name
    /\ Unwrap(pref.again).ok
    /\ Unwrap(pref.again) = Unwrap(pref.result)

\* C13 witness: a reference with a hyphenated namespace went round
C13_Witness ==
  /\ pref.pc = "done"
  /\ pref.value = <<"a", "-", "1", ":", "a">>
  /\ IsSome(pref.again)
  /\ Unwrap(pref.again).ok

\* C14: parsing succeeds exactly for the texts with one ':' and a valid
\* Label on each side of it; every other text is refused with the invalid
\* reference error, and a reference is never built from an invalid Label.
C14_ParseRefuses ==
  (pref.pc /= "parse" /\ IsSome(pref.result)) =>
    LET r == Unwrap(pref.result)
        s == pref.value
    IN  /\ r.ok <=> /\ Colons(s) = 1
                    /\ LabelValid(SideBefore(s))
                    /\ LabelValid(SideAfter(s))
        /\ ~r.ok => r.err = "InvalidPackageRef"
        /\ r.ok => LabelValid(r.namespace) /\ LabelValid(r.name)

\* C14 witness: a text with two ':' was refused
C14_Witness ==
  /\ pref.pc = "done"
  /\ pref.value = <<"a", ":", "a", ":", "a">>
  /\ IsSome(pref.result)
  /\ ~Unwrap(pref.result).ok


\* the inodes linked somewhere in the filesystem
Linked == {fs[q] : q \in DOMAIN fs}

\* C15: of two concurrent runs without --overwrite on an absent path,
\* neither is refused once it has passed the existence check, whatever the
\* other has published since; a rename that succeeds puts the run's own file
\* at the final path, and when both have succeeded with raw output on the
\* same path, one file is at the path and the other is linked nowhere.
C15_Step(p) ==
  /\ run[p].pc \in {"publish", "fs_write"} => run'[p].result /= "OutputExists"
  /\ (run[p].pc = "publish" /\ run[p].wit = None /\ run'[p].result = "Ok") =>
       fs'[FinalOf(p)] = TmpIno(p)

C15_Lost(p, q) ==
  (/\ Succeeded(p) /\ Succeeded(q)
   /\ run[p].wit = None /\ run[q].wit = None
   /\ FinalOf(p) = FinalOf(q)) =>
     /\ fs[FinalOf(p)] \in {TmpIno(p), TmpIno(q)}
     /\ Cardinality(Linked \cap {TmpIno(p), TmpIno(q)}) = 1

C15_CheckThenWriteRace ==
  /\ [][\A p \in Procs : C15_Step(p)]_vars
  /\ [](\A p \in Procs : \A q \in Procs \ {p} : C15_Lost(p, q))

\* C15 witness: both runs reported success on the same, initially absent
\* path without --overwrite; the file of one is at the path and the file of
\* the other, with different content, is gone
C15_Witness ==
  \E p \in Procs : \E q \in Procs \ {p} :
    /\ Succeeded(p) /\ Succeeded(q)
    /\ ~run[p].overwrite /\ ~run[q].overwrite
    /\ FinalOf(p) = FinalOf(q)
    /\ FinalOf(p) \notin DOMAIN disk0
    /\ fs[FinalOf(p)] = TmpIno(q)
    /\ TmpIno(p) \notin Linked
    /\ ino[TmpIno(p)] /= ino[TmpIno(q)]


\* the directory part of a path: all its components but the last
DirOf(path) == SubSeq(path, 1, Len(path) - 1)

\* C16: the temporary file lies in the output path itself in directory mode
\* and in the output path without its last component otherwise, and that is
\* the directory of the final path, so a rename of the temporary file to the
\* final path stays within one directory.
C16_TempBesideFinal ==
  \A p \in Procs :
    IsSome(run[p].tmp_path) =>
      /\ Unwrap(run[p].tmp_path) /= <<>>
      /\ DirOf(Unwrap(run[p].tmp_path)) =
           IF run[p].output.slash THEN run[p].output.comps
           ELSE DirOf(run[p].output.comps)
      /\ IsSome(run[p].output_path) =>
           DirOf(FinalOf(p)) = DirOf(Unwrap(run[p].tmp_path))

\* C16 witness: a directory-mode run renamed its temporary file into place
C16_Witness ==
  \E p \in Procs :
    /\ Succeeded(p)
    /\ run[p].output.slash
    /\ run[p].wit = None
    /\ fs[FinalOf(p)] = TmpIno(p)
    /\ DirOf(FinalOf(p)) = <<<<"out">>>>


\* the stage of the pipeline a position belongs to
Stage(pc) ==
  CASE pc = "config" -> 0
    [] pc \in {"version", "select"} -> 1
    [] pc = "get_release" -> 2
    [] pc \in {"tmpfile", "stream_content"} -> 3
    [] pc \in {"try_next", "write_all"} -> 4
    [] pc \in {"format", "into_std", "decode"} -> 5
    [] pc = "output_path" -> 6
    [] pc \in {"publish", "fs_write"} -> 7
    [] pc \in {"done", "crashed", "off"} -> 8

\* a run moves within its stage or on to the next one, or ends
C17_Order(p) ==
  \/ run'[p].pc \in {"done", "crashed"}
  \/ /\ Stage(run'[p].pc) \in {Stage(run[p].pc), Stage(run[p].pc) + 1}
     /\ run'[p].result = "Running"

\* what is visible at a path other than a temporary file changes only in
\* the publish step of a run whose final path it is
C17_FinalWrite ==
  \A q \in DOMAIN fs' :
    (~IsTmp(q) /\ (q \notin DOMAIN fs \/ ino'[fs'[q]] /= ino[fs[q]])) =>
      \E p \in Procs :
        /\ run[p].pc \in {"publish", "fs_write"}
        /\ FinalOf(p) = q

\* C17: the stages of a run follow one another in order, each entered from
\* its predecessor while the run is still successful, and the final path is
\* written only by the one publish step that ends the run, after the stream
\* has ended and the existence check has passed.
C17_StageOrder ==
  /\ [][\A p \in Procs : C17_Order(p)]_vars
  /\ [][C17_FinalWrite]_vars

\* the calls made to the registry so far
Calls(p) == <<run[p].listCalls, run[p].getCalls, run[p].streamCalls>>

\* C18: list_all_versions, get_release and stream_content are each called
\* at most once in a run; a registry failure ends the run at once, and a run
\* that has ended makes no further registry call.
C18_Bounded(p) ==
  /\ run[p].listCalls <= 1
  /\ run[p].getCalls <= 1
  /\ run[p].streamCalls <= 1
  /\ run[p].result \in {"RegistryError", "StreamError"} => run[p].pc = "done"

C18_Ended(p) ==
  run[p].pc \in {"done", "crashed"} =>
    /\ run'[p].pc = run[p].pc
    /\ run'[p].result = run[p].result
    /\ Calls(p)' = Calls(p)

C18_NoRetry ==
  /\ [](\A p \in Procs : C18_Bounded(p))
  /\ [][\A p \in Procs : C18_Ended(p)]_vars

\* C18 witness: stream_content failed after one get_release and one listing
C18_Witness ==
  \E p \in Procs :
    /\ run[p].pc = "done"
    /\ run[p].result = "RegistryError"
    /\ Calls(p) = <<1, 1, 1>>


C20_DirectoryModeSniffs ==
  \A p \in Procs :
    (run[p].output.slash /\ run[p].arg_format = "Auto") =>
      /\ run[p].result /= "DecodeError"
      /\ (Succeeded(p) /\ Decode(ino[TmpIno(p)]) = "WitPackage") =>
           /\ IsSome(run[p].wit)
           /\ HasExt([comps |-> FinalOf(p)], "wit")
           /\ Disk[FinalOf(p)] = Unwrap(run[p].wit)

====
